---- MODULE Spec2Model ----
(***************************************************************************)
(* Model of the resumable multi-part downloader of                         *)
(* src/src/services/multipart_downloader.py: one invocation of             *)
(* download_file_in_parts (the coordinator) and the pool of                *)
(* _download_individual_chunk workers it submits.                          *)
(*                                                                         *)
(* The remote file is the byte sequence 0, 1, ..., total_size-1, so the    *)
(* byte at offset j has value j and the order of the bytes of any file is  *)
(* visible in its content.  A streamed data segment is one byte.  md5 is    *)
(* modelled as an injective digest: the sequence of bytes fed to the       *)
(* hasher.  Time (speed_bps, the emit throttle, the sleeps) is not         *)
(* modelled.  pause_event and skip_event belong to the caller, who sets     *)
(* and clears them at any time: each read of one of them by a worker may   *)
(* see either value.  cancellation_event is a variable: once set it stays   *)
(* set for the run.                                                        *)
(***************************************************************************)
EXTENDS Integers, Sequences, FiniteSets, TLC

\* ---------------------------------------------------------------- bounds
MaxSize == 2          \* largest total_size tried
MaxParts == 2         \* largest num_parts tried
MaxWork == 4          \* largest total_size + num_parts tried
MaxUnranged == 1      \* most bytes a server sends to a request without a Range header
LockWork == 5         \* largest total_size + num_parts in the specification of the lock
MaxToggles == 3       \* toggles of the pause flag in the specification of the lock
PlanMaxSize == 7      \* largest total_size given to the planning step alone
PlanMaxParts == 4     \* largest num_parts given to the planning step alone
PlanBadParts == 1     \* the planning step alone is also given num_parts down to -PlanBadParts

\* ------------------------------------------------------ program constants
CHUNK_DOWNLOAD_RETRY_DELAY == 2
MAX_CHUNK_DOWNLOAD_RETRIES == 1

VARIABLES
    total_size,               \* argument of download_file_in_parts
    num_parts,                \* argument of download_file_in_parts
    disk,                     \* disk[i]: the file {save_path}.part{i}
    final_file,               \* the file at save_path
    cancellation_event,       \* threading.Event, set by the caller
    pc,                       \* position of the coordinator
    chunks_to_download,       \* indices queued by the resumption scan, ascending
    total_bytes_resumed,
    total_downloaded_so_far,  \* progress_data['total_downloaded_so_far']
    chunks_status,            \* progress_data['chunks_status'][i]: downloaded, active
    submit_idx,               \* position of the submission loop in chunks_to_download
    submitted,                \* indices with a future in chunk_futures
    collected,                \* futures whose result the as_completed loop has taken
    all_chunks_successful,
    total_bytes_from_threads,
    total_bytes_final,
    asm_i,                    \* loop index of the assembly loop
    asm_ok,                   \* FALSE once the assembly try block has raised
    md5_hasher,               \* bytes fed to the hasher so far
    result,                   \* value returned by download_file_in_parts
    wpc,                      \* wpc[i]: position of the worker of chunk i
    attempt,                  \* attempt[i]: loop variable of the retry loop
    bytes_this_chunk,         \* bytes_this_chunk[i]
    wres,                     \* wres[i]: what the future of worker i holds, a
                              \* (bytes_downloaded, success_flag) value or an exception
    wwhy,                     \* history: which return statement ended worker i
    requests_sent,            \* history: requests.get calls of worker i
    part_at_return,           \* history: disk[i] when worker i returned
    disk0,                    \* history: disk at invocation
    cancel_early,             \* history: flag was set before any worker passed its attempt check
    cancel_seen,              \* history: the coordinator read the flag as set
    removed_early,            \* history: a part file was removed before all were assembled
    remove_failed,            \* history: part files for which os.remove raised OSError
    first_returned,           \* history: the worker that returned first, -1 before
    range_header,             \* history: Range header of worker i's last request, << >> if none
    backoff,                  \* history: seconds worker i slept before its last request
    last_status,              \* history: HTTP status of worker i's last response, 0 if none
    written_after_cancel,     \* history: data segments worker i wrote with the flag set
    pause_event,              \* threading.Event toggled by the caller
    pause_toggles,            \* history: how often the caller has toggled pause_event
    pauses_seen,              \* history: how often worker i has entered a pause loop
    lock,                     \* holder of progress_data['lock'], NoHolder if free
    snapshot,                 \* the last status_list_copy emitted, with the total then
    plan_i,                   \* loop index of the planning loop run step by step
    plan_ranges,              \* chunks_ranges as the planning loop builds it
    plan_sizes                \* chunk_actual_sizes as built from plan_ranges

\* groups of variables, for the UNCHANGED clauses
planVars == << plan_i, plan_ranges, plan_sizes >>
lockVars == << pause_event, pause_toggles, pauses_seen, lock, snapshot >>
argVars == << total_size, num_parts, disk0, planVars, lockVars >>
coordVars == << pc, chunks_to_download, total_bytes_resumed, submit_idx, submitted,
               collected, all_chunks_successful, total_bytes_from_threads,
               total_bytes_final, cancel_seen >>
asmVars == << final_file, asm_i, asm_ok, md5_hasher, result, removed_early, remove_failed >>
progressVars == << total_downloaded_so_far, chunks_status >>
requestVars == << requests_sent, range_header, backoff, last_status >>
writeVars == << bytes_this_chunk, written_after_cancel >>
workerVars == << wpc, attempt, writeVars, requestVars >>
returnVars == << wres, wwhy, part_at_return, first_returned >>

vars == << total_size, num_parts, disk, final_file, cancellation_event,
           pc, chunks_to_download, total_bytes_resumed,
           total_downloaded_so_far, chunks_status, submit_idx, submitted, collected,
           all_chunks_successful, total_bytes_from_threads, total_bytes_final,
           asm_i, asm_ok, md5_hasher, result, wpc, attempt, bytes_this_chunk, wres,
           wwhy, first_returned, requests_sent, part_at_return, disk0, cancel_early, cancel_seen,
           removed_early, remove_failed, range_header, backoff, last_status, written_after_cancel, pause_event,
           pause_toggles, pauses_seen, lock, snapshot, plan_i, plan_ranges,
           plan_sizes >>

Slots == 0 .. (MaxParts - 1)

\* ------------------------------------------------------------ files
NoFile == [exists |-> FALSE, data |-> << >>]
File(bytes) == [exists |-> TRUE, data |-> bytes]

\* os.path.exists(p) and os.path.getsize(p) == n
HasSize(f, n) == f.exists /\ Len(f.data) = n

\* ------------------------------------------------------------ planning
\* a planner whose ranges include the first byte of the next range
RangeAt_Inclusive(ts, np, i) ==
    LET c == ts \div np
        start == i * c
    IN  [start |-> start,
         end |-> IF i < np - 1 THEN start + c ELSE ts - 1]

\* lines 203-211: the range computed for loop index i
RangeAt(ts, np, i) ==
    LET c == ts \div np
        start == i * c
    IN  [start |-> start,
         end |-> IF i < np - 1 THEN start + c - 1 ELSE ts - 1]

RECURSIVE RangesFrom(_, _, _)
RangesFrom(ts, np, i) ==
    IF i >= np THEN << >>
    ELSE LET r == RangeAt(ts, np, i)
             rest == RangesFrom(ts, np, i + 1)
         IN  IF r.start <= r.end THEN << r >> \o rest
             ELSE IF ts = 0 /\ i = 0 THEN << [start |-> 0, end |-> -1] >> \o rest
             ELSE rest

ChunkRanges(ts, np) == RangesFrom(ts, np, 0)

\* a size that leaves out the last byte of the range
ChunkActualSize_Exclusive(r) == IF r.end # -1 THEN r.end - r.start ELSE 0

\* lines 214-216
ChunkActualSize(r) == IF r.end # -1 THEN r.end - r.start + 1 ELSE 0

chunks_ranges == ChunkRanges(total_size, num_parts)
PlanLen == Len(chunks_ranges)
Planned == 0 .. (PlanLen - 1)
chunk_actual_sizes == [k \in 1 .. PlanLen |-> ChunkActualSize(chunks_ranges[k])]
ExpectedSize(i) == chunk_actual_sizes[i + 1]

\* bytes start .. start+n-1 of the remote file
RemoteBytes(start, n) == [k \in 1 .. n |-> start + k - 1]

\* a worker that sends a Range header with every request
HasRangeHeader_Always(i) == TRUE

\* lines 81-82: a Range header is sent unless end_byte is the sentinel
HasRangeHeader(i) == chunks_ranges[i + 1].end # -1

\* lines 80-82: the Range header of worker i, bytes=start-end, or none
RangeHeader(i) ==
    IF HasRangeHeader(i)
    THEN << chunks_ranges[i + 1].start, chunks_ranges[i + 1].end >> ELSE << >>

\* number of bytes the response to worker i can carry
StreamLimit(i) == IF HasRangeHeader(i) THEN ExpectedSize(i) ELSE MaxUnranged

\* ------------------------------------------------------------ resumption scan
\* line 229
IsComplete(d, i) == HasSize(d[i], ExpectedSize(i))

RECURSIVE ScanFrom(_, _)
ScanFrom(d, i) ==
    IF i >= PlanLen THEN << >>
    ELSE IF IsComplete(d, i) THEN ScanFrom(d, i + 1)
    ELSE << i >> \o ScanFrom(d, i + 1)

\* lines 223-233
ScanToDownload(d) == ScanFrom(d, 0)

RECURSIVE SumResumed(_, _)
SumResumed(d, i) ==
    IF i >= PlanLen THEN 0
    ELSE (IF IsComplete(d, i) THEN ExpectedSize(i) ELSE 0) + SumResumed(d, i + 1)

SeqRange(s) == { s[k] : k \in 1 .. Len(s) }

NoResult == [returned |-> FALSE, success |-> FALSE, total_bytes |-> 0,
             md5 |-> << >>, handle |-> FALSE]
\* a failure value that tells a cancelled call from a failed one
FailureResult_TagsCancellation(n) ==
    [returned |-> TRUE, success |-> FALSE, total_bytes |-> n, md5 |-> << >>,
     handle |-> cancellation_event]

\* lines 312 and 325: (False, n, None, None)
FailureResult(n) == [returned |-> TRUE, success |-> FALSE, total_bytes |-> n,
                     md5 |-> << >>, handle |-> FALSE]
\* (True, n, calculated_hash, open(save_path, 'rb'))
SuccessResult(n, digest) == [returned |-> TRUE, success |-> TRUE, total_bytes |-> n,
                             md5 |-> << digest >>, handle |-> TRUE]

NoWorkerResult == [bytes |-> 0, success |-> FALSE, raised |-> FALSE]

\* ------------------------------------------------------------ initial states
\* a part file left by an earlier run: none, the whole range, or a non-empty part of
\* the range that is one byte short
InitialParts(ts, np) ==
    LET plan == ChunkRanges(ts, np)
        choices(i) ==
            IF i >= Len(plan) THEN { NoFile }
            ELSE LET r == plan[i + 1]
                     n == ChunkActualSize(r)
                 IN  { NoFile, File(RemoteBytes(r.start, n)) }
                     \cup (IF n > 1 THEN { File(RemoteBytes(r.start, n - 1)) } ELSE {})
    IN  { d \in [Slots -> UNION { choices(i) : i \in Slots }] :
            \A i \in Slots : d[i] \in choices(i) }

\* progress_data['lock'] held by no thread
NoHolder == 0 - 1

\* no progress emitted yet
NoSnapshot == [taken |-> FALSE, total |-> 0,
               status |-> [i \in Slots |-> [downloaded |-> 0, active |-> FALSE]]]

\* the rest of the state when download_file_in_parts is called
AtCall ==
    /\ disk0 = disk
    /\ final_file = NoFile
    /\ cancellation_event = FALSE
    /\ pc = "call"
    /\ chunks_to_download = << >>
    /\ total_bytes_resumed = 0
    /\ total_downloaded_so_far = 0
    /\ chunks_status = [i \in Slots |-> [downloaded |-> 0, active |-> FALSE]]
    /\ submit_idx = 1
    /\ submitted = {}
    /\ collected = {}
    /\ all_chunks_successful = TRUE
    /\ total_bytes_from_threads = 0
    /\ total_bytes_final = 0
    /\ asm_i = 0
    /\ asm_ok = TRUE
    /\ md5_hasher = << >>
    /\ result = NoResult
    /\ wpc = [i \in Slots |-> "none"]
    /\ attempt = [i \in Slots |-> 0]
    /\ bytes_this_chunk = [i \in Slots |-> 0]
    /\ wres = [i \in Slots |-> NoWorkerResult]
    /\ wwhy = [i \in Slots |-> "none"]
    /\ requests_sent = [i \in Slots |-> 0]
    /\ part_at_return = [i \in Slots |-> NoFile]
    /\ cancel_early = FALSE
    /\ cancel_seen = FALSE
    /\ removed_early = FALSE
    /\ remove_failed = {}
    /\ first_returned = -1
    /\ range_header = [i \in Slots |-> << >>]
    /\ backoff = [i \in Slots |-> 0]
    /\ last_status = [i \in Slots |-> 0]
    /\ written_after_cancel = [i \in Slots |-> 0]
    /\ pause_event = FALSE
    /\ pause_toggles = 0
    /\ pauses_seen = [i \in Slots |-> 0]
    /\ lock = NoHolder
    /\ snapshot = NoSnapshot
    /\ plan_i = 0
    /\ plan_ranges = << >>
    /\ plan_sizes = << >>

Init ==
    /\ total_size \in 0 .. MaxSize
    /\ num_parts \in 1 .. MaxParts
    /\ total_size + num_parts <= MaxWork
    /\ disk \in InitialParts(total_size, num_parts)
    /\ AtCall

\* ------------------------------------------------------------ the caller's events
\* cancellation_event.set(): never cleared within a run
SetCancellation ==
    /\ pc \notin {"done", "raised"}
    /\ ~cancellation_event
    /\ cancellation_event' = TRUE
    /\ cancel_early' =
         /\ pc \in {"call", "submit", "collect"}
         /\ \A i \in Slots :
            \/ wpc[i] \in {"none", "start", "paused_start"}
            \/ wpc[i] = "attempt" /\ attempt[i] = 0
            \/ wpc[i] = "done" /\ requests_sent[i] = 0
    /\ UNCHANGED << argVars, coordVars, asmVars, progressVars, workerVars, returnVars,
                    disk >>

\* ------------------------------------------------------------ the coordinator
\* lines 200-256: planning, resumption scan, progress_data
Start ==
    /\ pc = "call"
    /\ IF PlanLen = 0 /\ total_size > 0
       THEN \* lines 218-220
            /\ pc' = "done"
            /\ result' = FailureResult(0)
            /\ UNCHANGED << chunks_to_download, total_bytes_resumed, progressVars >>
       ELSE IF PlanLen < num_parts
       THEN \* lines 243-248: chunk_actual_sizes[i] raises IndexError for i >= len(plan)
            /\ pc' = "raised"
            /\ UNCHANGED << result, chunks_to_download, total_bytes_resumed,
                            progressVars >>
       ELSE /\ chunks_to_download' = ScanToDownload(disk)
            /\ total_bytes_resumed' = SumResumed(disk, 0)
            /\ total_downloaded_so_far' = SumResumed(disk, 0)
            /\ chunks_status' =
                 [i \in Slots |->
                    [downloaded |-> IF i \in Planned /\ IsComplete(disk, i)
                                    THEN ExpectedSize(i) ELSE 0,
                     active |-> FALSE]]
            /\ pc' = IF ScanToDownload(disk) = << >> THEN "collect" ELSE "submit"
            /\ UNCHANGED result
    /\ UNCHANGED << argVars, disk, cancellation_event, cancel_early, submit_idx,
                    submitted, collected, all_chunks_successful,
                    total_bytes_from_threads, total_bytes_final, cancel_seen,
                    final_file, asm_i, asm_ok, md5_hasher, removed_early, remove_failed,
                    workerVars, returnVars >>

\* lines 259-278: one iteration of the submission loop
Submit ==
    /\ pc = "submit"
    /\ IF cancellation_event
       THEN \* lines 260-262: break
            /\ all_chunks_successful' = FALSE
            /\ cancel_seen' = TRUE
            /\ pc' = "collect"
            /\ UNCHANGED << submit_idx, submitted, wpc >>
       ELSE LET i == chunks_to_download[submit_idx]
            IN  /\ wpc' = [wpc EXCEPT ![i] = "start"]
                /\ submitted' = submitted \cup {i}
                /\ submit_idx' = submit_idx + 1
                /\ pc' = IF submit_idx = Len(chunks_to_download)
                         THEN "collect" ELSE "submit"
                /\ UNCHANGED << all_chunks_successful, cancel_seen >>
    /\ UNCHANGED << argVars, disk, cancellation_event, cancel_early, chunks_to_download,
                    total_bytes_resumed, collected, total_bytes_from_threads,
                    total_bytes_final, asmVars, progressVars, attempt,
                    writeVars, requestVars, returnVars >>

\* an aggregation that drops the success flag of the collected future
AggregateSuccess_IgnoresFailure(so_far, cancelled, success) == so_far /\ ~cancelled

\* lines 281-286: all_chunks_successful after one collected future
AggregateSuccess(so_far, cancelled, success) == so_far /\ ~cancelled /\ success

\* lines 280-286: one iteration of the as_completed loop; future.result() raises
\* again what the worker raised
Collect(i) ==
    /\ pc = "collect"
    /\ i \in submitted \ collected
    /\ wpc[i] = "done"
    /\ collected' = collected \cup {i}
    /\ pc' = IF wres[i].raised THEN "raised" ELSE pc
    /\ total_bytes_from_threads' = total_bytes_from_threads + wres[i].bytes
    /\ all_chunks_successful' =
          AggregateSuccess(all_chunks_successful, cancellation_event, wres[i].success)
    /\ cancel_seen' = (cancel_seen \/ cancellation_event)
    /\ UNCHANGED << argVars, disk, cancellation_event, cancel_early,
                    chunks_to_download, total_bytes_resumed, submit_idx, submitted,
                    total_bytes_final, asmVars, progressVars, workerVars, returnVars >>

\* a cleanup loop that stops one part short
RemoveParts_SkipsLast(d, failing) ==
    [i \in Slots |-> IF i < num_parts - 1 /\ d[i].exists /\ i \notin failing
                     THEN NoFile ELSE d[i]]

\* lines 315-321: the part files left by the finally block when os.remove raises
\* OSError for those in failing
RemoveParts(d, failing) ==
    [i \in Slots |-> IF i < num_parts /\ d[i].exists /\ i \notin failing
                     THEN NoFile ELSE d[i]]

\* a failure branch that cleans up like the finally block of the assembly
PartsAfterFailure_Removes(d) == RemoveParts(d, {})

\* lines 322-325: the failure branch removes no part file
PartsAfterFailure(d) == d

\* a coordinator that goes on as soon as one future has completed
PoolDrained_FirstCompleted(done, futures) == done # {} \/ futures = {}

\* lines 280-288: as_completed is exhausted and the pool's with-block exits once
\* every submitted future has completed
PoolDrained(done, futures) == done = futures

\* a byte-count check without the exemption for total_size = 0
ByteCountAccepted_Strict(total, size) == total = size

\* line 295: total_bytes_final == total_size or total_size == 0
ByteCountAccepted(total, size) == total = size \/ size = 0

\* lines 288-299 and 322-325: after the pool, decide between assembly and failure
Decide ==
    /\ pc = "collect"
    /\ PoolDrained(collected, submitted)
    /\ total_bytes_final' = total_bytes_resumed + total_bytes_from_threads
    /\ cancel_seen' = (cancel_seen \/ cancellation_event)
    /\ all_chunks_successful' = (all_chunks_successful /\ ~cancellation_event)
    /\ IF all_chunks_successful' /\ ByteCountAccepted(total_bytes_final', total_size)
       THEN \* line 299: open(save_path, 'wb')
            /\ pc' = "assemble"
            /\ final_file' = File(<< >>)
            /\ UNCHANGED << result, disk >>
       ELSE \* lines 322-325
            /\ pc' = "done"
            /\ result' = FailureResult(total_bytes_final')
            /\ disk' = PartsAfterFailure(disk)
            /\ UNCHANGED final_file
    /\ UNCHANGED << argVars, cancellation_event, cancel_early, chunks_to_download,
                    total_bytes_resumed, submit_idx, submitted, collected,
                    total_bytes_from_threads, asm_i, asm_ok, md5_hasher, removed_early,
                    remove_failed, progressVars, workerVars, returnVars >>

\* an assembly loop that walks the parts from the last to the first
AssemblyIndex_Descending(k) == num_parts - 1 - k

\* lines 300-301: the part file read by iteration k of the assembly loop
AssemblyIndex(k) == k

\* lines 300-305: one iteration of the assembly loop, the part file is read and written
AssembleChunk ==
    /\ pc = "assemble"
    /\ asm_i < num_parts
    /\ disk[AssemblyIndex(asm_i)].exists
    /\ final_file' = File(final_file.data \o disk[AssemblyIndex(asm_i)].data)
    /\ md5_hasher' = md5_hasher \o disk[AssemblyIndex(asm_i)].data
    /\ asm_i' = asm_i + 1
    /\ pc' = IF asm_i + 1 = num_parts THEN "cleanup" ELSE "assemble"
    /\ UNCHANGED << argVars, disk, cancellation_event, cancel_early, chunks_to_download,
                    total_bytes_resumed, submit_idx, submitted, collected,
                    all_chunks_successful, total_bytes_from_threads, total_bytes_final,
                    cancel_seen, asm_ok, result, removed_early, remove_failed,
                    progressVars, workerVars, returnVars >>

\* lines 302-304 raising (part file missing or unreadable, write error), caught at 310
AssembleError ==
    /\ pc = "assemble"
    /\ asm_i < num_parts
    /\ asm_ok' = FALSE
    /\ pc' = "cleanup"
    /\ UNCHANGED << argVars, disk, cancellation_event, cancel_early, chunks_to_download,
                    total_bytes_resumed, submit_idx, submitted, collected,
                    all_chunks_successful, total_bytes_from_threads, total_bytes_final,
                    cancel_seen, final_file, asm_i, md5_hasher, result, removed_early,
                    remove_failed, progressVars, workerVars, returnVars >>

\* lines 307-321: the return value is computed, then the finally block runs
Cleanup ==
    /\ pc = "cleanup"
    /\ \E failing \in SUBSET { i \in Slots : i < num_parts /\ disk[i].exists } :
          /\ disk' = RemoveParts(disk, failing)
          /\ remove_failed' = failing
    /\ removed_early' = (disk' # disk /\ asm_i < num_parts)
    /\ result' = IF asm_ok THEN SuccessResult(total_bytes_final, md5_hasher)
                 ELSE FailureResult(total_bytes_final)
    /\ pc' = "done"
    /\ UNCHANGED << argVars, cancellation_event, cancel_early, chunks_to_download,
                    total_bytes_resumed, submit_idx, submitted, collected,
                    all_chunks_successful, total_bytes_from_threads, total_bytes_final,
                    cancel_seen, final_file, asm_i, asm_ok, md5_hasher, progressVars,
                    workerVars, returnVars >>

\* ------------------------------------------------------------ the workers
\* a worker without the catch-all clause: an exception that is no RequestException
\* leaves the function
EscapesWorker_Unexpected(why) == why = "unexpected"

\* lines 93 and 151-158: the try block of an attempt ends with except Exception, so
\* no exception raised by the request, the file or the stream leaves the function
EscapesWorker(why) == FALSE

\* what every return statement of _download_individual_chunk leaves behind; the
\* finally block (lines 162-166) clears the active flag
WorkerReturn(i, ok, why) ==
    /\ wpc' = [wpc EXCEPT ![i] = "done"]
    /\ wres' = [wres EXCEPT ![i] =
                  IF EscapesWorker(why)
                  THEN [bytes |-> 0, success |-> FALSE, raised |-> TRUE]
                  ELSE [bytes |-> bytes_this_chunk[i], success |-> ok, raised |-> FALSE]]
    /\ wwhy' = [wwhy EXCEPT ![i] = why]
    /\ first_returned' = IF first_returned = -1 THEN i ELSE first_returned
    /\ part_at_return' = [part_at_return EXCEPT ![i] = disk[i]]
    /\ chunks_status' = [chunks_status EXCEPT ![i].active = FALSE]

\* a progress update that leaves the segment's own downloaded count alone
WriteSegment_SkipsSlot(i) ==
    /\ disk' = [disk EXCEPT ![i] =
                  File(disk[i].data \o << chunks_ranges[i + 1].start + Len(disk[i].data) >>)]
    /\ bytes_this_chunk' = [bytes_this_chunk EXCEPT ![i] = bytes_this_chunk[i] + 1]
    /\ written_after_cancel' =
         [written_after_cancel EXCEPT ![i] =
            written_after_cancel[i] + IF cancellation_event THEN 1 ELSE 0]
    /\ total_downloaded_so_far' = total_downloaded_so_far + 1
    /\ UNCHANGED chunks_status

\* lines 120-127: f.write(data_segment) and the update of progress_data under the lock
WriteSegment(i) ==
    /\ disk' = [disk EXCEPT ![i] =
                  File(disk[i].data \o << chunks_ranges[i + 1].start + Len(disk[i].data) >>)]
    /\ bytes_this_chunk' = [bytes_this_chunk EXCEPT ![i] = bytes_this_chunk[i] + 1]
    /\ written_after_cancel' =
         [written_after_cancel EXCEPT ![i] =
            written_after_cancel[i] + IF cancellation_event THEN 1 ELSE 0]
    /\ total_downloaded_so_far' = total_downloaded_so_far + 1
    /\ chunks_status' = [chunks_status EXCEPT ![i].downloaded = bytes_this_chunk[i] + 1]

\* lines 58-76: the checks before the download starts
W_Start(i) ==
    /\ wpc[i] = "start"
    /\ \E skip_is_set \in BOOLEAN, pause_is_set \in BOOLEAN :
         IF cancellation_event
         THEN WorkerReturn(i, FALSE, "cancelled")
         ELSE IF skip_is_set
         THEN WorkerReturn(i, FALSE, "skipped")
         ELSE /\ wpc' = [wpc EXCEPT ![i] =
                           IF pause_is_set THEN "paused_start" ELSE "attempt"]
              /\ chunks_status' = [chunks_status EXCEPT ![i].active = ~pause_is_set]
              /\ UNCHANGED returnVars
    /\ UNCHANGED << argVars, coordVars, asmVars, disk, cancellation_event, cancel_early,
                    total_downloaded_so_far, attempt, writeVars, requestVars >>

\* lines 67-76: a wake of the pause loop before the download that ends the loop
W_PausedStart(i) ==
    /\ wpc[i] = "paused_start"
    /\ \E pause_is_set \in BOOLEAN :
         /\ ~pause_is_set \/ cancellation_event
         /\ IF ~pause_is_set
            THEN /\ wpc' = [wpc EXCEPT ![i] = "attempt"]
                 /\ chunks_status' = [chunks_status EXCEPT ![i].active = TRUE]
                 /\ UNCHANGED returnVars
            ELSE WorkerReturn(i, FALSE, "cancelled")
    /\ UNCHANGED << argVars, coordVars, asmVars, disk, cancellation_event, cancel_early,
                    total_downloaded_so_far, attempt, writeVars, requestVars >>

\* a retry loop without the cancellation check at its head
CancelledAtAttempt_Never == FALSE

\* line 90: the cancellation check at the head of each attempt
CancelledAtAttempt == cancellation_event

\* a retry loop with one attempt too many
InRetryRange_OneMore(a) == a <= MAX_CHUNK_DOWNLOAD_RETRIES + 1

\* line 89: attempt in range(MAX_CHUNK_DOWNLOAD_RETRIES + 1)
InRetryRange(a) == a < MAX_CHUNK_DOWNLOAD_RETRIES + 1

\* lines 89-91 and 160-161: head of the retry loop
W_Attempt(i) ==
    /\ wpc[i] = "attempt"
    /\ IF ~InRetryRange(attempt[i])
       THEN WorkerReturn(i, FALSE, "exhausted")
       ELSE IF CancelledAtAttempt
       THEN WorkerReturn(i, FALSE, "cancelled")
       ELSE /\ wpc' = [wpc EXCEPT ![i] = "request"]
            /\ UNCHANGED << returnVars, chunks_status >>
    /\ UNCHANGED << argVars, coordVars, asmVars, disk, cancellation_event, cancel_early,
                    total_downloaded_so_far, attempt, writeVars, requestVars >>

\* line 103: statuses for which response.raise_for_status() raises HTTPError, as
\* tried here: two client errors, the throttling status and a server error
ErrorStatuses == {403, 404, 429, 503}

\* the status of a response that raise_for_status() lets through
OkStatus(i) == IF HasRangeHeader(i) THEN 206 ELSE 200

\* lines 151-153: HTTPError is a RequestException and none of ConnectionError,
\* Timeout, IncompleteRead, so no status is caught by the retryable clause
CaughtAsRetryable(status) == FALSE

\* line 96: the sleep before attempt number a > 0 (counted from 0)
BackoffDelay(a) == CHUNK_DOWNLOAD_RETRY_DELAY * 2 ^ (a - 1)

\* lines 94-108 and 151-158: the backoff sleep, requests.get, raise_for_status and
\* open(chunk_temp_file_path, 'wb'), which creates or truncates the part file
W_Request(i) ==
    /\ wpc[i] = "request"
    /\ requests_sent' = [requests_sent EXCEPT ![i] = requests_sent[i] + 1]
    /\ range_header' = [range_header EXCEPT ![i] = RangeHeader(i)]
    /\ backoff' = [backoff EXCEPT ![i] =
                     IF attempt[i] > 0 THEN BackoffDelay(attempt[i]) ELSE backoff[i]]
    /\ \E outcome \in {"response", "retryable", "http_error", "open_error"},
          status \in ErrorStatuses :
         /\ last_status' = [last_status EXCEPT ![i] =
                              IF outcome = "http_error" THEN status
                              ELSE IF outcome = "retryable" THEN 0 ELSE OkStatus(i)]
         /\ CASE outcome = "response" ->
                /\ wpc' = [wpc EXCEPT ![i] = "stream"]
                /\ disk' = [disk EXCEPT ![i] = File(<< >>)]
                /\ UNCHANGED << attempt, returnVars, chunks_status >>
           [] outcome = "retryable" \/ (outcome = "http_error" /\ CaughtAsRetryable(status)) ->
                /\ wpc' = [wpc EXCEPT ![i] = "attempt"]
                /\ attempt' = [attempt EXCEPT ![i] = attempt[i] + 1]
                /\ UNCHANGED << disk, returnVars, chunks_status >>
           [] outcome = "http_error" /\ ~CaughtAsRetryable(status) ->
                /\ WorkerReturn(i, FALSE, "non_retryable")
                /\ UNCHANGED << disk, attempt >>
           [] outcome = "open_error" ->
                /\ WorkerReturn(i, FALSE, "unexpected")
                /\ UNCHANGED << disk, attempt >>
    /\ UNCHANGED << argVars, coordVars, asmVars, cancellation_event, cancel_early,
                    total_downloaded_so_far, writeVars >>

\* a data loop without the cancellation check at the head of each iteration
CancelledAtData_Never == FALSE

\* line 110: the cancellation check at the head of each iteration of the data loop
CancelledAtData == cancellation_event

\* lines 109-127: the stream delivers one data segment
W_Data(i) ==
    /\ wpc[i] = "stream"
    /\ Len(disk[i].data) < StreamLimit(i)
    /\ \E pause_is_set \in BOOLEAN :
         IF CancelledAtData
         THEN /\ WorkerReturn(i, FALSE, "cancelled")
              /\ UNCHANGED << disk, writeVars, total_downloaded_so_far >>
         ELSE IF pause_is_set
         THEN /\ wpc' = [wpc EXCEPT ![i] = "paused_stream"]
              /\ UNCHANGED << disk, writeVars, progressVars, returnVars >>
         ELSE /\ WriteSegment(i)
              /\ UNCHANGED << wpc, returnVars >>
    /\ UNCHANGED << argVars, coordVars, asmVars, cancellation_event, cancel_early,
                    attempt, requestVars >>

\* lines 115-127: a wake of the pause loop inside the stream that ends the loop; once
\* the flag is clear the pending data segment is written without a further
\* cancellation check
W_PausedStream(i) ==
    /\ wpc[i] = "paused_stream"
    /\ \E pause_is_set \in BOOLEAN :
         /\ ~pause_is_set \/ cancellation_event
         /\ IF ~pause_is_set
            THEN /\ WriteSegment(i)
                 /\ wpc' = [wpc EXCEPT ![i] = "stream"]
                 /\ UNCHANGED returnVars
            ELSE /\ WorkerReturn(i, FALSE, "cancelled")
                 /\ UNCHANGED << disk, writeVars, total_downloaded_so_far >>
    /\ UNCHANGED << argVars, coordVars, asmVars, cancellation_event, cancel_early,
                    attempt, requestVars >>

\* lines 109 and 148-149: iter_content is exhausted (the server may close the
\* stream before the whole range was sent)
W_StreamEnd(i) ==
    /\ wpc[i] = "stream"
    /\ WorkerReturn(i, TRUE, "success")
    /\ UNCHANGED << argVars, coordVars, asmVars, disk, cancellation_event, cancel_early,
                    total_downloaded_so_far, attempt, writeVars, requestVars >>

\* lines 151-152: the stream raises ConnectionError or Timeout, the loop continues
W_StreamRetryable(i) ==
    /\ wpc[i] = "stream"
    /\ wpc' = [wpc EXCEPT ![i] = "attempt"]
    /\ attempt' = [attempt EXCEPT ![i] = attempt[i] + 1]
    /\ UNCHANGED << argVars, coordVars, asmVars, disk, cancellation_event, cancel_early,
                    progressVars, writeVars, requestVars, returnVars >>

\* an error path that removes the partial part file before it returns
W_StreamUnexpected_Removes(i) ==
    /\ wpc[i] = "stream"
    /\ WorkerReturn(i, FALSE, "unexpected")
    /\ disk' = [disk EXCEPT ![i] = NoFile]
    /\ UNCHANGED << argVars, coordVars, asmVars, cancellation_event, cancel_early,
                    total_downloaded_so_far, attempt, writeVars, requestVars >>

\* lines 153-158: the stream or f.write raises any other exception
W_StreamUnexpected(i) ==
    /\ wpc[i] = "stream"
    /\ WorkerReturn(i, FALSE, "unexpected")
    /\ UNCHANGED << argVars, coordVars, asmVars, disk, cancellation_event, cancel_early,
                    total_downloaded_so_far, attempt, writeVars, requestVars >>

\* ------------------------------------------------------------ the planning step alone
\* lines 200-220 run one statement at a time, for a wider range of arguments
PlanInit ==
    /\ total_size \in 0 .. PlanMaxSize
    /\ num_parts \in (0 - PlanBadParts) .. PlanMaxParts
    /\ disk = [i \in Slots |-> NoFile]
    /\ AtCall

planRest == << total_size, num_parts, disk0, lockVars, disk, cancellation_event, cancel_early,
               chunks_to_download, total_bytes_resumed, submit_idx, submitted, collected,
               all_chunks_successful, total_bytes_from_threads, total_bytes_final,
               cancel_seen, final_file, asm_i, asm_ok, md5_hasher, removed_early,
               remove_failed, progressVars, workerVars, returnVars >>

\* line 203: total_size // num_parts raises ZeroDivisionError for num_parts = 0
PlanDivide ==
    /\ pc = "call"
    /\ pc' = IF num_parts = 0 THEN "raised" ELSE "plan_loop"
    /\ UNCHANGED << planVars, result, planRest >>

\* lines 205-211: one iteration of the planning loop
PlanRange ==
    /\ pc = "plan_loop"
    /\ plan_i < num_parts
    /\ LET r == RangeAt(total_size, num_parts, plan_i)
       IN  plan_ranges' =
             IF r.start <= r.end THEN Append(plan_ranges, r)
             ELSE IF total_size = 0 /\ plan_i = 0
                  THEN Append(plan_ranges, [start |-> 0, end |-> -1])
                  ELSE plan_ranges
    /\ plan_i' = plan_i + 1
    /\ UNCHANGED << pc, plan_sizes, result, planRest >>

\* lines 213-216: the expected size of each planned chunk
PlanSizes ==
    /\ pc = "plan_loop"
    /\ plan_i >= num_parts
    /\ plan_sizes' = [k \in 1 .. Len(plan_ranges) |-> ChunkActualSize(plan_ranges[k])]
    /\ pc' = "plan_check"
    /\ UNCHANGED << plan_i, plan_ranges, result, planRest >>

\* lines 218-220, and for an accepted plan the way to the pool at line 258:
\* ThreadPoolExecutor(max_workers=num_parts) raises ValueError for num_parts <= 0
PlanCheck ==
    /\ pc = "plan_check"
    /\ IF plan_ranges = << >> /\ total_size > 0
       THEN pc' = "done" /\ result' = FailureResult(0)
       ELSE /\ pc' = IF num_parts <= 0 THEN "raised" ELSE "planned"
            /\ UNCHANGED result
    /\ UNCHANGED << planVars, planRest >>

PlanNext ==
    \/ PlanDivide
    \/ PlanRange
    \/ PlanSizes
    \/ PlanCheck

PlanSpec == PlanInit /\ [][PlanNext]_vars

\* ------------------------------------------------------------ the progress lock
\* the workers of one pool, one statement of the locked sections at a time: lines
\* 58-76, the data loop and its progress update at lines 109-146, the finally block at
\* lines 162-166; one attempt per worker, each stream delivering the bytes of its
\* range one data segment at a time
LockInit ==
    /\ num_parts \in 1 .. MaxParts
    /\ total_size \in num_parts .. (LockWork - num_parts)
    /\ disk = [i \in Slots |-> NoFile]
    /\ AtCall

lockRest == << total_size, num_parts, disk0, planVars, coordVars, asmVars, cancel_early,
               attempt, written_after_cancel, requestVars, part_at_return,
               first_returned >>

\* pause_event.set() or pause_event.clear() by the caller, any number of times (up to
\* MaxToggles here)
L_TogglePause ==
    /\ pause_toggles < MaxToggles
    /\ pause_event' = ~pause_event
    /\ pause_toggles' = pause_toggles + 1
    /\ UNCHANGED << lockRest, disk, cancellation_event, wpc, bytes_this_chunk, wres, wwhy,
                    progressVars, pauses_seen, lock, snapshot >>

\* cancellation_event.set() by the caller
L_SetCancellation ==
    /\ ~cancellation_event
    /\ cancellation_event' = TRUE
    /\ UNCHANGED << lockRest, disk, wpc, bytes_this_chunk, wres, wwhy, progressVars,
                    lockVars >>

\* lines 259-278: executor.submit for chunk i, in the order of the indices
L_Submit(i) ==
    /\ i < num_parts
    /\ wpc[i] = "none"
    /\ \A k \in Slots : k < i => wpc[k] # "none"
    /\ wpc' = [wpc EXCEPT ![i] = "start"]
    /\ UNCHANGED << lockRest, disk, cancellation_event, bytes_this_chunk, wres, wwhy,
                    progressVars, lockVars >>

\* a return statement: the value of the future; inside the try block (line 78 on) the
\* finally block is still to run
L_Return(i, ok, why, next) ==
    /\ wpc' = [wpc EXCEPT ![i] = next]
    /\ wres' = [wres EXCEPT ![i] =
                  [bytes |-> bytes_this_chunk[i], success |-> ok, raised |-> FALSE]]
    /\ wwhy' = [wwhy EXCEPT ![i] = why]

\* lines 59-66: the checks before the download starts, outside the try block
L_Start(i) ==
    /\ wpc[i] = "start"
    /\ \E skip_is_set \in BOOLEAN :
         IF cancellation_event
         THEN L_Return(i, FALSE, "cancelled", "done") /\ UNCHANGED pauses_seen
         ELSE IF skip_is_set
         THEN L_Return(i, FALSE, "skipped", "done") /\ UNCHANGED pauses_seen
         ELSE /\ wpc' = [wpc EXCEPT ![i] = IF pause_event THEN "paused_start"
                                                          ELSE "want_active"]
              /\ pauses_seen' = [pauses_seen EXCEPT ![i] =
                                    pauses_seen[i] + IF pause_event THEN 1 ELSE 0]
              /\ UNCHANGED << wres, wwhy >>
    /\ UNCHANGED << lockRest, disk, cancellation_event, bytes_this_chunk, progressVars,
                    pause_event, pause_toggles, lock, snapshot >>

\* lines 67-72: a wake of the pause loop before the download that ends the loop
L_PausedStart(i) ==
    /\ wpc[i] = "paused_start"
    /\ ~pause_event \/ cancellation_event
    /\ IF pause_event
       THEN L_Return(i, FALSE, "cancelled", "done")
       ELSE wpc' = [wpc EXCEPT ![i] = "want_active"] /\ UNCHANGED << wres, wwhy >>
    /\ UNCHANGED << lockRest, disk, cancellation_event, bytes_this_chunk, progressVars,
                    lockVars >>

\* a lock that lets a second thread in
LockFree_Always == TRUE

\* threading.Lock: acquire blocks while another thread holds the lock
LockFree == lock = NoHolder

\* lines 75, 125 and 164: with progress_data['lock'] is entered
L_Acquire(i) ==
    /\ wpc[i] \in {"want_active", "want_update", "want_final"}
    /\ LockFree
    /\ lock' = i
    /\ wpc' = [wpc EXCEPT ![i] = CASE wpc[i] = "want_active" -> "in_active"
                                   [] wpc[i] = "want_update" -> "upd_total"
                                   [] wpc[i] = "want_final" -> "in_final"]
    /\ UNCHANGED << lockRest, disk, cancellation_event, bytes_this_chunk, wres, wwhy,
                    progressVars, pause_event, pause_toggles, pauses_seen, snapshot >>

\* line 76, and the with block is left
L_Active(i) ==
    /\ wpc[i] = "in_active"
    /\ chunks_status' = [chunks_status EXCEPT ![i].active = TRUE]
    /\ lock' = NoHolder
    /\ wpc' = [wpc EXCEPT ![i] = "request"]
    /\ UNCHANGED << lockRest, disk, cancellation_event, bytes_this_chunk, wres, wwhy,
                    total_downloaded_so_far, pause_event, pause_toggles, pauses_seen,
                    snapshot >>

\* lines 89-108: the check at the head of the attempt, the request and the open of
\* the part file; an error of the request ends the worker here
L_Request(i) ==
    /\ wpc[i] = "request"
    /\ \E answered \in BOOLEAN :
         IF cancellation_event
         THEN L_Return(i, FALSE, "cancelled", "want_final") /\ UNCHANGED disk
         ELSE IF ~answered
         THEN L_Return(i, FALSE, "non_retryable", "want_final") /\ UNCHANGED disk
         ELSE /\ wpc' = [wpc EXCEPT ![i] = "stream"]
              /\ disk' = [disk EXCEPT ![i] = File(<< >>)]
              /\ UNCHANGED << wres, wwhy >>
    /\ UNCHANGED << lockRest, cancellation_event, bytes_this_chunk, progressVars,
                    lockVars >>

\* lines 120-122: f.write(data_segment) and bytes_this_chunk += len(data_segment)
L_Write(i) ==
    /\ disk' = [disk EXCEPT ![i] =
                  File(disk[i].data \o << chunks_ranges[i + 1].start + Len(disk[i].data) >>)]
    /\ bytes_this_chunk' = [bytes_this_chunk EXCEPT ![i] = bytes_this_chunk[i] + 1]
    /\ wpc' = [wpc EXCEPT ![i] = "want_update"]
    /\ UNCHANGED << wres, wwhy >>

\* a pause loop entered with the progress lock taken
LockAtPause_Held(i, holder) == i

\* lines 112-118: the pause loop is outside every with block, the lock is not touched
LockAtPause(i, holder) == holder

\* lines 109-122: the stream delivers one data segment
L_Data(i) ==
    /\ wpc[i] = "stream"
    /\ Len(disk[i].data) < StreamLimit(i)
    /\ IF cancellation_event
       THEN /\ L_Return(i, FALSE, "cancelled", "want_final")
            /\ UNCHANGED << disk, bytes_this_chunk, pauses_seen, lock >>
       ELSE IF pause_event
       THEN /\ wpc' = [wpc EXCEPT ![i] = "paused_stream"]
            /\ pauses_seen' = [pauses_seen EXCEPT ![i] = pauses_seen[i] + 1]
            /\ lock' = LockAtPause(i, lock)
            /\ UNCHANGED << disk, bytes_this_chunk, wres, wwhy >>
       ELSE /\ L_Write(i)
            /\ UNCHANGED << pauses_seen, lock >>
    /\ UNCHANGED << lockRest, cancellation_event, progressVars, pause_event,
                    pause_toggles, snapshot >>

\* lines 115-122: a wake of the pause loop inside the stream that ends the loop
L_PausedStream(i) ==
    /\ wpc[i] = "paused_stream"
    /\ ~pause_event \/ cancellation_event
    /\ IF pause_event
       THEN /\ L_Return(i, FALSE, "cancelled", "want_final")
            /\ UNCHANGED << disk, bytes_this_chunk >>
       ELSE L_Write(i)
    /\ UNCHANGED << lockRest, cancellation_event, progressVars, lockVars >>

\* lines 109 and 148-149: iter_content is exhausted
L_StreamEnd(i) ==
    /\ wpc[i] = "stream"
    /\ L_Return(i, TRUE, "success", "want_final")
    /\ UNCHANGED << lockRest, disk, cancellation_event, bytes_this_chunk, progressVars,
                    lockVars >>

\* line 126, with the lock held
L_UpdateTotal(i) ==
    /\ wpc[i] = "upd_total"
    /\ total_downloaded_so_far' = total_downloaded_so_far + 1
    /\ wpc' = [wpc EXCEPT ![i] = "upd_slot"]
    /\ UNCHANGED << lockRest, disk, cancellation_event, bytes_this_chunk, wres, wwhy,
                    chunks_status, lockVars >>

\* line 127, with the lock held
L_UpdateSlot(i) ==
    /\ wpc[i] = "upd_slot"
    /\ chunks_status' = [chunks_status EXCEPT ![i].downloaded = bytes_this_chunk[i]]
    /\ wpc' = [wpc EXCEPT ![i] = "emit"]
    /\ UNCHANGED << lockRest, disk, cancellation_event, bytes_this_chunk, wres, wwhy,
                    total_downloaded_so_far, lockVars >>

\* lines 140-146: if more than 0.25 s have passed since the last emission the status
\* list is copied and emitted; then the with block is left
L_Emit(i) ==
    /\ wpc[i] = "emit"
    /\ \E due \in BOOLEAN :
         snapshot' = IF due
                     THEN [taken |-> TRUE, total |-> total_downloaded_so_far,
                           status |-> [k \in Slots |-> chunks_status[k]]]
                     ELSE snapshot
    /\ lock' = NoHolder
    /\ wpc' = [wpc EXCEPT ![i] = "stream"]
    /\ UNCHANGED << lockRest, disk, cancellation_event, bytes_this_chunk, wres, wwhy,
                    progressVars, pause_event, pause_toggles, pauses_seen >>

\* lines 165-166, and the with block is left
L_Final(i) ==
    /\ wpc[i] = "in_final"
    /\ chunks_status' = [chunks_status EXCEPT ![i].active = FALSE]
    /\ lock' = NoHolder
    /\ wpc' = [wpc EXCEPT ![i] = "done"]
    /\ UNCHANGED << lockRest, disk, cancellation_event, bytes_this_chunk, wres, wwhy,
                    total_downloaded_so_far, pause_event, pause_toggles, pauses_seen,
                    snapshot >>

LockNext ==
    \/ L_TogglePause
    \/ L_SetCancellation
    \/ \E i \in Slots : L_Submit(i)
    \/ \E i \in Slots : L_Start(i)
    \/ \E i \in Slots : L_PausedStart(i)
    \/ \E i \in Slots : L_Acquire(i)
    \/ \E i \in Slots : L_Active(i)
    \/ \E i \in Slots : L_Request(i)
    \/ \E i \in Slots : L_Data(i)
    \/ \E i \in Slots : L_PausedStream(i)
    \/ \E i \in Slots : L_StreamEnd(i)
    \/ \E i \in Slots : L_UpdateTotal(i)
    \/ \E i \in Slots : L_UpdateSlot(i)
    \/ \E i \in Slots : L_Emit(i)
    \/ \E i \in Slots : L_Final(i)

LockSpec == LockInit /\ [][LockNext]_vars

\* ------------------------------------------------------------ specification
Next ==
    \/ SetCancellation
    \/ Start
    \/ Submit
    \/ \E i \in Slots : Collect(i)
    \/ Decide
    \/ AssembleChunk
    \/ AssembleError
    \/ Cleanup
    \/ \E i \in Slots : W_Start(i)
    \/ \E i \in Slots : W_PausedStart(i)
    \/ \E i \in Slots : W_Attempt(i)
    \/ \E i \in Slots : W_Request(i)
    \/ \E i \in Slots : W_Data(i)
    \/ \E i \in Slots : W_PausedStream(i)
    \/ \E i \in Slots : W_StreamEnd(i)
    \/ \E i \in Slots : W_StreamRetryable(i)
    \/ \E i \in Slots : W_StreamUnexpected(i)

Spec == Init /\ [][Next]_vars

\* the steps of the thread that runs download_file_in_parts
Coordinator ==
    \/ Start
    \/ Submit
    \/ \E i \in Slots : Collect(i)
    \/ Decide
    \/ AssembleChunk
    \/ AssembleError
    \/ Cleanup

\* the steps of the pool thread that runs _download_individual_chunk for chunk i
Worker(i) ==
    \/ W_Start(i)
    \/ W_PausedStart(i)
    \/ W_Attempt(i)
    \/ W_Request(i)
    \/ W_Data(i)
    \/ W_PausedStream(i)
    \/ W_StreamEnd(i)
    \/ W_StreamRetryable(i)
    \/ W_StreamUnexpected(i)

\* the same behaviours under the scheduling the code relies on: the calling thread and
\* every pool thread (max_workers = num_parts, one thread per submitted chunk) keep
\* running; requests.get has timeout=(10, 120) and every stream ends or raises; a
\* paused worker wakes every 0.2 s and goes on once the pause flag is clear or the
\* cancellation flag is set. The caller need never set the cancellation flag.
FairSpec ==
    /\ Spec
    /\ WF_vars(Coordinator)
    /\ \A i \in Slots : WF_vars(Worker(i))

TypeOK ==
    /\ pc \in {"call", "submit", "collect", "assemble", "cleanup", "done", "raised"}
    /\ \A i \in Slots : wpc[i] \in {"none", "start", "paused_start", "attempt", "request",
                                    "stream", "paused_stream", "done"}

\* ------------------------------------------------------------ claims
\* the planned segments that were complete on disk when the call was made
CompleteAtCall == { i \in Planned : IsComplete(disk0, i) }

\* part file i as the assembly loop finds it: left by its worker, or by an earlier run
PartBeforeAssembly(i) == IF i \in submitted THEN part_at_return[i] ELSE disk0[i]

\* the submission loop ran to its end without reading the cancellation flag as set
SubmissionOver == pc \notin {"call", "submit"} /\ submit_idx > Len(chunks_to_download)

\* C1: resumption. With k of the N planned segment files complete at the call, and the
\* flag not set while the coordinator submits, exactly N-k workers are submitted, one
\* for each of the other indices, and none for a complete segment.
C1_ResumptionSubmitsTheRest ==
    SubmissionOver =>
        /\ submitted = Planned \ CompleteAtCall
        /\ Cardinality(submitted) = PlanLen - Cardinality(CompleteAtCall)

\* C2: a non-success return caused by a failed chunk or by cancellation deletes no
\* segment file: every segment complete at the call or when its worker returned is on
\* disk unchanged, and the next scan skips exactly those segments.
C2_FailureKeepsSegments ==
    (pc = "done" /\ ~result.success /\ ~all_chunks_successful) =>
        /\ \A i \in CompleteAtCall : disk[i] = disk0[i]
        /\ \A i \in submitted :
              IsComplete(part_at_return, i) => disk[i] = part_at_return[i]
        /\ Planned \ SeqRange(ScanToDownload(disk)) =
              CompleteAtCall \cup { i \in submitted : IsComplete(part_at_return, i) }

\* a failed call that leaves a segment of an earlier run and a segment downloaded now
C2_Witness ==
    /\ pc = "done" /\ ~result.success /\ ~all_chunks_successful
    /\ CompleteAtCall # {}
    /\ \E i \in submitted : IsComplete(part_at_return, i) /\ IsComplete(disk, i)

\* C3: when assembly fails the call reports failure and every part file that existed
\* when assembly started still exists after the call.
C3_AssemblyFailureKeepsSegments ==
    (pc = "done" /\ ~asm_ok) =>
        /\ ~result.success
        /\ \A i \in Planned : PartBeforeAssembly(i).exists => disk[i].exists

\* C4: after a successful return no part file of the call remains, the final file
\* exists, and the part files were removed only after every segment had been written.
C4_SuccessRemovesAllParts ==
    (pc = "done" /\ result.success) =>
        /\ \A i \in Slots : i < num_parts => ~disk[i].exists
        /\ final_file.exists
        /\ asm_i = num_parts /\ ~removed_early

\* C4 as amended: after a successful return every part file whose os.remove did not
\* raise OSError is gone, the final file exists, and removal came after the last write.
C4_SuccessRemovesPartsUnlessRemoveFails ==
    (pc = "done" /\ result.success) =>
        /\ \A i \in Slots : (i < num_parts /\ disk[i].exists) => i \in remove_failed
        /\ final_file.exists
        /\ asm_i = num_parts /\ ~removed_early

\* a successful two-part call whose part files are all gone
C4_Witness ==
    /\ pc = "done" /\ result.success /\ num_parts = 2
    /\ \A i \in Slots : ~disk[i].exists
    /\ Len(final_file.data) = total_size

RECURSIVE ConcatParts(_)
\* the content of part files 0 .. k-1 in ascending index order
ConcatParts(k) ==
    IF k = 0 THEN << >> ELSE ConcatParts(k - 1) \o PartBeforeAssembly(k - 1).data

\* C5: whatever the order in which the workers finish, the final file is the
\* concatenation of the part files in ascending index order, and the checksum is
\* taken over the same bytes in the same order.
C5_AssemblyInIndexOrder ==
    final_file.exists =>
        /\ final_file.data = ConcatParts(asm_i)
        /\ md5_hasher = ConcatParts(asm_i)
        /\ result.success =>
              /\ result.md5 = << ConcatParts(num_parts) >>
              /\ final_file.data = ConcatParts(num_parts)

\* a success in which the worker of part 1 returned before the worker of part 0
C5_Witness ==
    /\ pc = "done" /\ result.success
    /\ submitted = {0, 1} /\ first_returned = 1
    /\ final_file.data = << 0, 1 >>

\* C6: a chunk that fails with a non-retryable HTTP error, cancellation never being
\* set, stops no sibling: every queued chunk was dispatched, every worker returned on
\* its own account, the call fails without creating the final file, and every
\* segment that was complete stays on disk with its planned size.
C6_FailureDoesNotStopSiblings ==
    (pc = "done" /\ ~cancellation_event
       /\ \E i \in submitted : wwhy[i] = "non_retryable") =>
        /\ ~result.success
        /\ final_file = NoFile
        /\ submitted = SeqRange(chunks_to_download)
        /\ \A j \in submitted :
              /\ wpc[j] = "done" /\ wwhy[j] # "cancelled"
              /\ disk[j] = part_at_return[j]
        /\ \A j \in Planned :
              (IsComplete(disk0, j) \/ (j \in submitted /\ IsComplete(part_at_return, j)))
                 => IsComplete(disk, j)

\* the first worker to return failed with an HTTP error and a sibling then completed
C6_Witness ==
    /\ pc = "done" /\ ~cancellation_event
    /\ first_returned \in submitted /\ wwhy[first_returned] = "non_retryable"
    /\ \E j \in submitted :
          j # first_returned /\ wwhy[j] = "success" /\ IsComplete(disk, j)

\* C7: when the flag is set before any worker has passed the cancellation check of
\* its first attempt, no request is sent, no part file is created, truncated or
\* written, and the call does not succeed.
C7_EarlyCancellationTransfersNothing ==
    cancel_early =>
        /\ \A i \in Slots : requests_sent[i] = 0
        /\ disk = disk0
        /\ final_file = NoFile
        /\ ~result.success

\* the flag was set with a worker submitted, which returned at one of its checks
C7_Witness ==
    /\ cancel_early /\ pc = "done"
    /\ \E i \in submitted : wwhy[i] = "cancelled" /\ disk0[i] # NoFile

\* C8: a call that ended because the flag was observed returns a value different from
\* the one a call that failed with the same byte count returns.
C8_CancelledResultIsDistinct ==
    (pc = "done" /\ ~result.success /\ cancel_seen) =>
        result # [returned |-> TRUE, success |-> FALSE,
                  total_bytes |-> result.total_bytes, md5 |-> << >>, handle |-> FALSE]

\* C8 as amended: every return that is not a success, cancelled or failed, is
\* (False, total_bytes_final, None, None): the result tells "fully done" from the
\* rest and nothing more.
C8_FailureResultIsUniform ==
    (pc = "done" /\ ~result.success) =>
        result = [returned |-> TRUE, success |-> FALSE,
                  total_bytes |-> total_bytes_resumed + total_bytes_from_threads,
                  md5 |-> << >>, handle |-> FALSE]

\* a cancelled call in which no chunk failed and bytes were transferred
C8_Witness ==
    /\ pc = "done" /\ ~result.success /\ cancel_seen
    /\ \A i \in submitted : wwhy[i] \in {"success", "cancelled"}
    /\ result.total_bytes > 0

\* C9: idempotent resume. With every planned segment complete at the call, the flag
\* never set and no I/O error in the assembly, the call submits no worker, sends no
\* request and succeeds with the index-ordered concatenation of the segments as the
\* final file and as the input of the checksum.
C9_IdempotentResume ==
    (pc \in {"done", "raised"} /\ CompleteAtCall = Planned /\ ~cancellation_event
       /\ asm_ok) =>
        /\ submitted = {}
        /\ \A i \in Slots : requests_sent[i] = 0
        /\ result.success
        /\ final_file = File(RemoteBytes(0, total_size))
        /\ result.md5 = << RemoteBytes(0, total_size) >>

\* C10: in every step of one invocation with total_size > 0, total_downloaded_so_far
\* does not decrease and does not exceed total_size, transient errors followed by
\* retries included.
C10_ProgressMonotoneAndBounded ==
    [][ total_size > 0 =>
          /\ total_downloaded_so_far' >= total_downloaded_so_far
          /\ total_downloaded_so_far' <= total_size ]_vars

\* ------------------------------------------------------------ claims on the plan
\* the planning loop has run to its end
PlanBuilt == pc \in {"plan_check", "planned", "done"} /\ plan_i >= num_parts

\* the ranges of the plan that contain byte b
RangesHolding(b) ==
    { k \in 1 .. Len(plan_ranges) : plan_ranges[k].start <= b /\ b <= plan_ranges[k].end }

\* C11: for total_size >= 0 and num_parts >= 1 the planned ranges are contiguous in
\* index order from byte 0, none is empty, and every byte of [0, total_size-1] lies in
\* exactly one of them; for total_size = 0 the only range is the sentinel (0,-1).
C11_PlanCoversExactlyOnce ==
    (PlanBuilt /\ num_parts >= 1) =>
        /\ plan_ranges = ChunkRanges(total_size, num_parts)
        /\ IF total_size = 0
           THEN plan_ranges = << [start |-> 0, end |-> -1] >>
           ELSE /\ Len(plan_ranges) >= 1
                /\ plan_ranges[1].start = 0
                /\ plan_ranges[Len(plan_ranges)].end = total_size - 1
                /\ \A k \in 1 .. Len(plan_ranges) :
                      /\ plan_ranges[k].start <= plan_ranges[k].end
                      /\ k > 1 => plan_ranges[k].start = plan_ranges[k - 1].end + 1
                /\ \A b \in 0 .. (total_size - 1) : Cardinality(RangesHolding(b)) = 1
                /\ \A k \in 1 .. Len(plan_ranges) :
                      plan_ranges[k].start >= 0 /\ plan_ranges[k].end <= total_size - 1

\* a plan of three ranges with a remainder in the last one
C11_Witness ==
    /\ pc = "planned" /\ total_size = 7 /\ num_parts = 3
    /\ plan_ranges = << [start |-> 0, end |-> 1], [start |-> 2, end |-> 3],
                        [start |-> 4, end |-> 6] >>

\* C12: for total_size >= num_parts >= 1 the plan has num_parts ranges, each but the
\* last of size total_size // num_parts, the last of size
\* total_size - (total_size // num_parts) * (num_parts - 1), every recorded size is
\* end - start + 1, and 1000 bytes in 3 parts give [0,332], [333,665], [666,999].
C12_PlanSizes ==
    /\ (pc \in {"planned", "done"} /\ total_size >= num_parts /\ num_parts >= 1) =>
          /\ Len(plan_ranges) = num_parts
          /\ Len(plan_sizes) = num_parts
          /\ \A k \in 1 .. num_parts :
                /\ plan_sizes[k] = plan_ranges[k].end - plan_ranges[k].start + 1
                /\ plan_sizes[k] =
                      IF k < num_parts THEN total_size \div num_parts
                      ELSE total_size - (total_size \div num_parts) * (num_parts - 1)
    /\ ChunkRanges(1000, 3) = << [start |-> 0, end |-> 332], [start |-> 333, end |-> 665],
                                 [start |-> 666, end |-> 999] >>
    /\ [k \in 1 .. 3 |-> ChunkActualSize(ChunkRanges(1000, 3)[k])] = << 333, 333, 334 >>

\* seven bytes in four parts: three of one byte and a last one of four
C12_Witness ==
    /\ pc = "planned" /\ total_size = 7 /\ num_parts = 4
    /\ plan_sizes = << 1, 1, 1, 4 >>

\* C13: for total_size = 0 the plan is the single sentinel range (0,-1) with expected
\* size 0, whatever num_parts >= 1 is (five parts included), and the worker of that
\* range sends its requests without a Range header.
C13_ZeroSizePlanIsSentinel ==
    /\ total_size = 0 =>
          /\ chunks_ranges = << [start |-> 0, end |-> -1] >>
          /\ chunk_actual_sizes = << 0 >>
          /\ \A i \in Slots : requests_sent[i] > 0 => range_header[i] = << >>
    /\ total_size > 0 =>
          \A i \in Slots : requests_sent[i] > 0 =>
              range_header[i] = << chunks_ranges[i + 1].start, chunks_ranges[i + 1].end >>
    /\ ChunkRanges(0, 5) = << [start |-> 0, end |-> -1] >>

\* the worker of the sentinel range sent a request and returned success
C13_Witness ==
    /\ total_size = 0 /\ num_parts = 1
    /\ requests_sent[0] = 1 /\ range_header[0] = << >> /\ wwhy[0] = "success"

\* C14: a plan shorter than num_parts is valid: the call never raises because the
\* segments with index >= len(plan) do not exist.
C14_ShortPlanIsValid ==
    PlanLen < num_parts => pc # "raised"

\* C15: planning fails exactly when num_parts < 1: then the call returns
\* (False, 0, None, None); for num_parts >= 1 and total_size > 0 the plan is not
\* empty and planning does not fail.
C15_PlanningFailsExactlyBelowOne ==
    /\ (num_parts < 1 /\ pc \in {"planned", "done", "raised"}) =>
          pc = "done" /\ result = FailureResult(0)
    /\ (num_parts >= 1 /\ total_size > 0 /\ pc \in {"plan_check", "planned", "done", "raised"}) =>
          plan_ranges # << >> /\ pc \in {"plan_check", "planned"}

\* ------------------------------------------------------------ claims on the gate
\* the three conditions under which the coordinator may assemble
GateOpen ==
    /\ \A i \in submitted : wpc[i] = "done" /\ wres[i].success
    /\ ~cancel_seen
    /\ (total_bytes_resumed + total_bytes_from_threads = total_size \/ total_size = 0)

\* C16: the final file is opened only if every submitted worker returned success, the
\* flag was clear at every check of the coordinator and the byte counts add up to
\* total_size (or total_size = 0); in every other case the call ends with
\* (False, total_bytes, None, None) and the final file is never written.
C16_AssemblyOnlyThroughGate ==
    /\ (pc \in {"assemble", "cleanup"} \/ final_file.exists) => GateOpen
    /\ (pc \in {"done", "raised"} /\ ~GateOpen) =>
          /\ result = FailureResult(total_bytes_resumed + total_bytes_from_threads)
          /\ final_file = NoFile

\* C17: a worker whose first attempt failed with a transient error and whose retry
\* transferred the whole range returns success with a byte count equal to the size of
\* its part file; and when every submitted chunk ends complete, the flag never being
\* set and the assembly meeting no I/O error, the call succeeds (total_size > 0).
C17_RetryReportsSegmentSize ==
    total_size > 0 =>
        /\ \A i \in submitted :
              (wpc[i] = "done" /\ wwhy[i] = "success" /\ requests_sent[i] > 1
                 /\ IsComplete(part_at_return, i)) =>
                  wres[i].bytes = Len(part_at_return[i].data)
        /\ (pc = "done" /\ ~cancellation_event /\ asm_ok
              /\ \A i \in submitted : wwhy[i] = "success" /\ IsComplete(part_at_return, i)) =>
              result.success

\* C18: for total_size > 0, assembly starts only with every planned part file at its
\* planned size, and a success result means a final file of total_size bytes.
C18_AssemblyReadsCompleteSegments ==
    total_size > 0 =>
        /\ pc = "assemble" => \A i \in Planned : IsComplete(disk, i)
        /\ (pc = "done" /\ result.success) => Len(final_file.data) = total_size

\* C19: await-all. While a submitted worker is still running the coordinator neither
\* opens the final file nor returns a result, be it success or failure.
C19_AwaitAll ==
    (pc \in {"assemble", "cleanup", "done"} \/ final_file.exists \/ result.returned) =>
        \A i \in submitted : wpc[i] = "done" /\ i \in collected

\* a cancelled call that waited for two workers which had both sent a request
C19_Witness ==
    /\ pc = "done" /\ result.returned /\ cancel_seen
    /\ submitted = {0, 1}
    /\ \A i \in submitted : wwhy[i] = "cancelled" /\ requests_sent[i] > 0

\* requests sent, attempts begun and seconds slept stay within the retry policy
RetryBudgetKept(i) ==
    /\ requests_sent[i] <= MAX_CHUNK_DOWNLOAD_RETRIES + 1
    /\ attempt[i] <= MAX_CHUNK_DOWNLOAD_RETRIES + 1
    /\ backoff[i] = IF requests_sent[i] >= 2
                    THEN CHUNK_DOWNLOAD_RETRY_DELAY * 2 ^ (requests_sent[i] - 2) ELSE 0
    /\ wwhy[i] = "exhausted" =>
          /\ ~wres[i].success
          /\ attempt[i] = MAX_CHUNK_DOWNLOAD_RETRIES + 1
          /\ requests_sent[i] = MAX_CHUNK_DOWNLOAD_RETRIES + 1
    /\ (wpc[i] = "done" /\ attempt[i] >= 1 /\ wwhy[i] # "cancelled") =>
          requests_sent[i] >= 2

\* C20: a worker sends at most MAX_CHUNK_DOWNLOAD_RETRIES + 1 = 2 requests. A
\* retryable error on an attempt that is not the last starts one further attempt,
\* which (unless it returns at its cancellation check) sleeps
\* CHUNK_DOWNLOAD_RETRY_DELAY * 2^(attempt-1) and sends one request; every response
\* reopens the part file truncated; a retryable error on the last attempt makes the
\* worker return success = false.
C20_RetryPolicy ==
    /\ [](\A i \in Slots : RetryBudgetKept(i))
    /\ [][ \A i \in Slots :
             /\ attempt'[i] # attempt[i] =>
                   /\ attempt'[i] = attempt[i] + 1
                   /\ wpc'[i] = "attempt" /\ wres'[i] = wres[i]
                   /\ requests_sent'[i] <= requests_sent[i] + 1
             /\ (wpc[i] = "request" /\ wpc'[i] = "stream") => disk'[i] = File(<< >>) ]_vars

\* a worker that used both attempts, slept the base delay and gave up
C20_Witness ==
    \E i \in Slots :
        /\ wpc[i] = "done" /\ wwhy[i] = "exhausted"
        /\ requests_sent[i] = 2 /\ backoff[i] = 2 /\ ~wres[i].success

\* ------------------------------------------------------------ claims on the workers
\* C21: the statuses on which a worker fails at once are exactly the 4xx statuses
\* other than 429: a worker that returned from the non-retryable clause had met such
\* a status, and a worker that met a 429 sent a further request.
C21_OnlyClientErrorsFailAtOnce ==
    \A i \in Slots :
        /\ (wpc[i] = "done" /\ wwhy[i] = "non_retryable") =>
              last_status[i] \in (400 .. 499) \ {429}
        /\ (wpc[i] = "done" /\ last_status[i] = 429) => requests_sent[i] > 1

\* a worker ended by a throttling response to its first request
C21_Witness ==
    \E i \in Slots :
        /\ wpc[i] = "done" /\ last_status[i] = 429
        /\ requests_sent[i] = 1 /\ attempt[i] = 0 /\ ~wres[i].success

\* C22: a worker that reads the cancellation flag as set at one of its checks returns
\* success = false there and leaves its segment file as it was; after the flag is set
\* each worker writes at most one further data segment; and an invocation that returns
\* with the flag set returns a failure.
C22_FlagAlwaysFailsTheInvocation ==
    /\ [](/\ \A i \in Slots : written_after_cancel[i] <= 1
          /\ (pc = "done" /\ cancellation_event) => ~result.success)
    /\ [][\A i \in Slots :
            (wwhy'[i] = "cancelled" /\ wwhy[i] # "cancelled") =>
               (~wres'[i].success /\ disk'[i] = disk[i])]_vars

\* C22 as amended: the worker part as stated; the flag fails the invocation when a
\* worker or the coordinator has read it as set, that is when it was set no later than
\* the coordinator's last check after the pool (line 290). A flag set after that
\* check, during assembly, changes nothing.
C22_FlagFailsTheInvocationUntilLastCheck ==
    /\ [](/\ \A i \in Slots : written_after_cancel[i] <= 1
          /\ \A i \in Slots : (wpc[i] = "done" /\ wwhy[i] = "cancelled") => cancellation_event
          /\ (pc = "done" /\ (cancel_seen \/ \E i \in Slots : wwhy[i] = "cancelled"))
                => ~result.success
          /\ (pc \in {"assemble", "cleanup"} /\ ~cancel_seen /\ cancellation_event)
                => all_chunks_successful)
    /\ [][\A i \in Slots :
            (wwhy'[i] = "cancelled" /\ wwhy[i] # "cancelled") =>
               (~wres'[i].success /\ disk'[i] = disk[i])]_vars

\* a worker wrote one data segment after the flag was set (its pause ended), read the
\* flag at its next check and returned, and the invocation returned a failure
C22_Witness ==
    \E i \in Slots :
        /\ wpc[i] = "done" /\ wwhy[i] = "cancelled"
        /\ written_after_cancel[i] = 1
        /\ pc = "done" /\ ~result.success

C26_ErrorsStayInsideTheWorker ==
    /\ \A i \in Slots :
          wpc[i] = "done" =>
             /\ ~wres[i].raised
             /\ wwhy[i] \in {"exhausted", "non_retryable", "unexpected"} => ~wres[i].success
    /\ pc = "raised" => submitted = {}
    /\ (pc = "done" /\ \E i \in submitted : ~wres[i].success) =>
          result = FailureResult(total_bytes_final)

\* the invocation returned the failure result after one worker met an exception that
\* only the catch-all clause handles
C26_Witness ==
    /\ pc = "done" /\ result = FailureResult(total_bytes_final)
    /\ \E i \in submitted : wwhy[i] = "unexpected" /\ ~wres[i].raised /\ ~wres[i].success

\* C27: an invocation with total_size = 0 returns success only if its segment received
\* no byte: a successful result reports 0 total bytes and the final file is empty.
C27_ZeroSizeSucceedsOnlyWithNoBytes ==
    (total_size = 0 /\ pc = "done" /\ result.success) =>
        /\ result.total_bytes = 0
        /\ final_file = File(<< >>)

\* C27 as amended: for total_size = 0 the byte count is not checked. When every worker
\* succeeded, the flag was not read as set and the assembly did not raise, the
\* invocation returns success whatever the segment received: the result reports the
\* bytes counted and the final file holds the bytes of the part file.
C27_ZeroSizeAcceptsAnyByteCount ==
    (total_size = 0 /\ pc = "done" /\ all_chunks_successful /\ asm_ok) =>
        /\ result.success
        /\ result.total_bytes = total_bytes_final
        /\ final_file = File(PartBeforeAssembly(0).data)

\* an invocation with total_size = 0 whose request, sent without a Range header, was
\* answered with one byte: success, one byte reported, one byte in the final file
C27_Witness ==
    /\ total_size = 0 /\ pc = "done" /\ result.success
    /\ range_header[0] = << >> /\ requests_sent[0] = 1
    /\ result.total_bytes = 1
    /\ Len(final_file.data) = 1

\* the sum of chunks_status[i]['downloaded'] over the segments below n
RECURSIVE SumDownloaded(_, _)
SumDownloaded(status, n) ==
    IF n = 0 THEN 0 ELSE status[n - 1].downloaded + SumDownloaded(status, n - 1)

\* C29: between the locked sections total_downloaded_so_far is the sum over the
\* segments of chunks_status[i]['downloaded'], and when the invocation returns it is
\* the total_bytes value of the result.
C29_TotalIsSumOfSegments ==
    /\ total_downloaded_so_far = SumDownloaded(chunks_status, MaxParts)
    /\ pc = "done" => result.total_bytes = total_downloaded_so_far

\* an invocation that returned after one segment was resumed and another was written
\* by its worker in two attempts
C29_Witness ==
    /\ pc = "done" /\ result.total_bytes = total_downloaded_so_far
    /\ total_bytes_resumed > 0
    /\ \E i \in submitted : requests_sent[i] = 2 /\ chunks_status[i].downloaded > 0

\* C30: once the cancellation flag is set no worker sends a request: a worker in its
\* backoff delay, or between the check at the head of the attempt and the request,
\* returns without sending it.
C30_NoRequestAfterCancellation ==
    [][\A i \in Slots :
         requests_sent'[i] > requests_sent[i] => ~cancellation_event]_vars

\* C28: every invocation eventually reaches a terminal state and returns a result.
C28_EveryInvocationReturns == <>(pc = "done" /\ result.returned)

\* ------------------------------------------------------------ claims on the lock
\* worker i is inside a with progress_data['lock'] block
InSection(i) == wpc[i] \in {"in_active", "upd_total", "upd_slot", "emit", "in_final"}

\* worker i waits in a pause loop
Paused(i) == wpc[i] \in {"paused_start", "paused_stream"}

C25_ProgressUnderOneLock ==
    /\ [](/\ \A i \in Slots : InSection(i) => lock = i
          /\ \A i \in Slots : \A j \in Slots : (InSection(i) /\ InSection(j)) => i = j
          /\ snapshot.taken => snapshot.total = SumDownloaded(snapshot.status, MaxParts)
          /\ lock = NoHolder =>
                total_downloaded_so_far = SumDownloaded(chunks_status, MaxParts))
    /\ [][(progressVars' # progressVars \/ snapshot' # snapshot) =>
            \E i \in Slots :
               /\ InSection(i) /\ lock = i
               /\ \A k \in Slots \ {i} : chunks_status'[k] = chunks_status[k]]_vars

\* a snapshot showing a written byte was emitted, and one worker waits for the lock
\* while another is between the update of the total and that of its own slot
C25_Witness ==
    \E i \in Slots : \E j \in Slots \ {i} :
        /\ wpc[i] = "upd_slot" /\ lock = i
        /\ wpc[j] = "want_update"
        /\ snapshot.taken /\ snapshot.total > 0
        /\ total_downloaded_so_far > SumDownloaded(chunks_status, MaxParts)

====
